---- MODULE Spec2Model ----
(***************************************************************************)
(* llm_intents: the process-wide SQLite result cache (cache.py) and the    *)
(* Google Custom Search tool that uses it (GoogleSearch.py).               *)
(*                                                                         *)
(* Python values are modelled as tagged tuples:                            *)
(*   <<"none">>            None                                            *)
(*   <<"int", n>>          an int                                          *)
(*   <<"str", s>>          a str, s a sequence of symbols                  *)
(*   <<"list", xs>>        a list, xs a sequence of values                 *)
(*   <<"dict", ps>>        a dict with str keys, ps the sequence of        *)
(*                         <<key, value>> pairs in insertion order         *)
(* A str is a sequence of symbols.  The JSON punctuation, the digits, the  *)
(* space, the quote and the backslash are one symbol each; a literal name  *)
(* of the program ("results", "title", ...) is abbreviated to one symbol.  *)
(***************************************************************************)
EXTENDS Integers, Sequences, FiniteSets, TLC

(***************************************************************************)
(* Python values                                                           *)
(***************************************************************************)
PyNone == <<"none">>
PyInt(n) == <<"int", n>>
PyStr(s) == <<"str", s>>
PyList(xs) == <<"list", xs>>
PyDict(ps) == <<"dict", ps>>

IsNone(v) == v[1] = "none"
IsList(v) == v[1] = "list"
IsDict(v) == v[1] = "dict"

\* Faulty bool(v): an empty str counts as true.
Truthy_empty_str(v) ==
    CASE v[1] = "none" -> FALSE
      [] v[1] = "int" -> v[2] # 0
      [] v[1] = "str" -> TRUE
      [] OTHER -> Len(v[2]) > 0

\* Faulty bool(v): an empty list counts as true.
Truthy_empty_list(v) ==
    CASE v[1] = "none" -> FALSE
      [] v[1] = "int" -> v[2] # 0
      [] v[1] = "list" -> TRUE
      [] OTHER -> Len(v[2]) > 0

\* bool(v): None, 0, "", [] and {} are falsy.
Truthy(v) ==
    CASE v[1] = "none" -> FALSE
      [] v[1] = "int" -> v[2] # 0
      [] OTHER -> Len(v[2]) > 0

DictKeys(d) == {d[2][i][1] : i \in 1..Len(d[2])}

\* d.get(k, default)
DictGet(d, k, default) ==
    IF k \in DictKeys(d)
    THEN LET i == CHOOSE j \in 1..Len(d[2]) : d[2][j][1] = k IN d[2][i][2]
    ELSE default

\* d[k] = v: the value is replaced in place, a new key is appended.
DictSet(d, k, v) ==
    IF k \in DictKeys(d)
    THEN PyDict([i \in 1..Len(d[2]) |->
                    IF d[2][i][1] = k THEN <<k, v>> ELSE d[2][i]])
    ELSE PyDict(Append(d[2], <<k, v>>))

\* {k: v for k, v in d.items() if k != drop}
RECURSIVE FilterPairs(_, _)
FilterPairs(ps, drop) ==
    IF ps = <<>> THEN <<>>
    ELSE IF Head(ps)[1] = drop THEN FilterPairs(Tail(ps), drop)
    ELSE <<Head(ps)>> \o FilterPairs(Tail(ps), drop)

\* a == b: dicts are equal when they hold the same items, in any order.
RECURSIVE PyEq(_, _)
PyEq(a, b) ==
    IF a[1] # b[1] THEN FALSE
    ELSE CASE a[1] = "none" -> TRUE
           [] a[1] = "list" ->
                /\ Len(a[2]) = Len(b[2])
                /\ \A i \in 1..Len(a[2]) : PyEq(a[2][i], b[2][i])
           [] a[1] = "dict" ->
                /\ DictKeys(a) = DictKeys(b)
                /\ Len(a[2]) = Len(b[2])
                /\ \A k \in DictKeys(a) :
                      PyEq(DictGet(a, k, PyNone), DictGet(b, k, PyNone))
           [] OTHER -> a[2] = b[2]

(***************************************************************************)
(* json.dumps                                                              *)
(***************************************************************************)
\* The symbols in code point order (of their first character).
SymbolOrder ==
    <<" ", "\"", ",", "0", "1", "2", "3", "4", "5", "6", "7", "8", "9", ":",
      "<", ">", "A", "B", "T", "U", "[", "\\", "]", "a", "b", "c", "cx",
      "description", "g", "google_cse_search", "htmlSnippet", "instruction",
      "items", "k", "key", "m", "null", "num", "q", "results", "s", "snippet",
      "title", "x", "{", "}">>

\* ord(c): the position of the symbol in that order.
Ord ==
    [c \in {SymbolOrder[i] : i \in 1..Len(SymbolOrder)} |->
        CHOOSE i \in 1..Len(SymbolOrder) : SymbolOrder[i] = c]

Rank(c) == Ord[c]

RECURSIVE StrLess(_, _)
StrLess(a, b) ==
    IF b = <<>> THEN FALSE
    ELSE IF a = <<>> THEN TRUE
    ELSE IF Head(a) = Head(b) THEN StrLess(Tail(a), Tail(b))
    ELSE Rank(Head(a)) < Rank(Head(b))

\* sorted(d.items()) by key
RECURSIVE InsertPair(_, _)
InsertPair(p, sorted) ==
    IF sorted = <<>> THEN <<p>>
    ELSE IF StrLess(p[1], Head(sorted)[1]) THEN <<p>> \o sorted
    ELSE <<Head(sorted)>> \o InsertPair(p, Tail(sorted))

RECURSIVE SortPairs(_)
SortPairs(ps) ==
    IF ps = <<>> THEN <<>> ELSE InsertPair(Head(ps), SortPairs(Tail(ps)))

DigitSymbols == <<"0", "1", "2", "3", "4", "5", "6", "7", "8", "9">>

RECURSIVE IntToStr(_)
IntToStr(n) ==
    IF n < 10 THEN <<DigitSymbols[n + 1]>>
    ELSE IntToStr(n \div 10) \o <<DigitSymbols[(n % 10) + 1]>>

\* The quote and the backslash are escaped with a backslash.
RECURSIVE Escape(_)
Escape(s) ==
    IF s = <<>> THEN <<>>
    ELSE (IF Head(s) \in {"\"", "\\"} THEN <<"\\", Head(s)>> ELSE <<Head(s)>>)
         \o Escape(Tail(s))

RECURSIVE json_dumps_with(_, _, _, _)
RECURSIVE DumpItems(_, _, _, _)
RECURSIVE DumpPairs(_, _, _, _)
DumpItems(xs, sort_keys, item_sep, key_sep) ==
    IF xs = <<>> THEN <<>>
    ELSE json_dumps_with(Head(xs), sort_keys, item_sep, key_sep)
         \o (IF Tail(xs) = <<>> THEN <<>>
             ELSE item_sep \o DumpItems(Tail(xs), sort_keys, item_sep, key_sep))

DumpPairs(ps, sort_keys, item_sep, key_sep) ==
    IF ps = <<>> THEN <<>>
    ELSE <<"\"">> \o Escape(Head(ps)[1]) \o <<"\"">> \o key_sep
         \o json_dumps_with(Head(ps)[2], sort_keys, item_sep, key_sep)
         \o (IF Tail(ps) = <<>> THEN <<>>
             ELSE item_sep \o DumpPairs(Tail(ps), sort_keys, item_sep, key_sep))

json_dumps_with(v, sort_keys, item_sep, key_sep) ==
    CASE v[1] = "none" -> <<"null">>
      [] v[1] = "int" -> IntToStr(v[2])
      [] v[1] = "str" -> <<"\"">> \o Escape(v[2]) \o <<"\"">>
      [] v[1] = "list" ->
           <<"[">> \o DumpItems(v[2], sort_keys, item_sep, key_sep) \o <<"]">>
      [] v[1] = "dict" ->
           <<"{">>
           \o DumpPairs(IF sort_keys THEN SortPairs(v[2]) ELSE v[2],
                        sort_keys, item_sep, key_sep)
           \o <<"}">>

\* json.dumps(data): the default separators ", " and ": ", keys as inserted.
json_dumps(v) == json_dumps_with(v, FALSE, <<",", " ">>, <<":", " ">>)

\* Faulty canonical encoding: compact, the keys in insertion order.
json_dumps_unsorted(v) == json_dumps_with(v, FALSE, <<",">>, <<":">>)

\* json.dumps(params, sort_keys=True, separators=(",", ":"))
json_dumps_canonical(v) == json_dumps_with(v, TRUE, <<",">>, <<":">>)

(***************************************************************************)
(* json.loads: a recursive descent parser.  A parse is                     *)
(* [ok |-> BOOLEAN, val |-> value, pos |-> index after the value].         *)
(***************************************************************************)
ParseFail == [ok |-> FALSE, val |-> PyNone, pos |-> 0]

RECURSIVE SkipWs(_, _)
SkipWs(s, i) == IF i <= Len(s) /\ s[i] = " " THEN SkipWs(s, i + 1) ELSE i

\* The characters of a string literal from i (after the opening quote).
RECURSIVE ParseChars(_, _, _)
ParseChars(s, i, acc) ==
    IF i > Len(s) THEN ParseFail
    ELSE IF s[i] = "\"" THEN [ok |-> TRUE, val |-> acc, pos |-> i + 1]
    ELSE IF s[i] = "\\"
         THEN IF i + 1 > Len(s) THEN ParseFail
              ELSE ParseChars(s, i + 2, Append(acc, s[i + 1]))
    ELSE ParseChars(s, i + 1, Append(acc, s[i]))

DigitValue(c) == Ord[c] - Ord["0"]
IsDigit(c) == c \in {"0", "1", "2", "3", "4", "5", "6", "7", "8", "9"}

RECURSIVE ParseDigits(_, _, _)
ParseDigits(s, i, acc) ==
    IF i <= Len(s) /\ IsDigit(s[i])
    THEN ParseDigits(s, i + 1, acc * 10 + DigitValue(s[i]))
    ELSE [ok |-> TRUE, val |-> PyInt(acc), pos |-> i]

RECURSIVE ParseValue(_, _)
RECURSIVE ParseItems(_, _, _)
RECURSIVE ParsePairs(_, _, _)
\* After "[" or after a ",": one value, then "," or "]".
ParseItems(s, i, acc) ==
    LET v == ParseValue(s, i) IN
    IF ~v.ok THEN ParseFail
    ELSE LET j == SkipWs(s, v.pos) IN
         IF j > Len(s) THEN ParseFail
         ELSE IF s[j] = "," THEN ParseItems(s, j + 1, Append(acc, v.val))
         ELSE IF s[j] = "]"
              THEN [ok |-> TRUE, val |-> PyList(Append(acc, v.val)), pos |-> j + 1]
         ELSE ParseFail

\* After "{" or after a ",": "key" : value, then "," or "}".
ParsePairs(s, i, acc) ==
    LET k == SkipWs(s, i) IN
    IF k > Len(s) \/ s[k] # "\"" THEN ParseFail
    ELSE LET key == ParseChars(s, k + 1, <<>>) IN
         IF ~key.ok THEN ParseFail
         ELSE LET c == SkipWs(s, key.pos) IN
              IF c > Len(s) \/ s[c] # ":" THEN ParseFail
              ELSE LET v == ParseValue(s, c + 1) IN
                   IF ~v.ok THEN ParseFail
                   ELSE LET j == SkipWs(s, v.pos)
                            d == DictSet(PyDict(acc), key.val, v.val)
                        IN IF j > Len(s) THEN ParseFail
                           ELSE IF s[j] = "," THEN ParsePairs(s, j + 1, d[2])
                           ELSE IF s[j] = "}"
                                THEN [ok |-> TRUE, val |-> d, pos |-> j + 1]
                           ELSE ParseFail

ParseValue(s, i0) ==
    LET i == SkipWs(s, i0) IN
    IF i > Len(s) THEN ParseFail
    ELSE IF s[i] = "null" THEN [ok |-> TRUE, val |-> PyNone, pos |-> i + 1]
    ELSE IF s[i] = "\"" THEN
         LET r == ParseChars(s, i + 1, <<>>) IN
         IF r.ok THEN [ok |-> TRUE, val |-> PyStr(r.val), pos |-> r.pos]
         ELSE ParseFail
    ELSE IF IsDigit(s[i]) THEN ParseDigits(s, i, 0)
    ELSE IF s[i] = "[" THEN
         LET j == SkipWs(s, i + 1) IN
         IF j <= Len(s) /\ s[j] = "]"
         THEN [ok |-> TRUE, val |-> PyList(<<>>), pos |-> j + 1]
         ELSE ParseItems(s, i + 1, <<>>)
    ELSE IF s[i] = "{" THEN
         LET j == SkipWs(s, i + 1) IN
         IF j <= Len(s) /\ s[j] = "}"
         THEN [ok |-> TRUE, val |-> PyDict(<<>>), pos |-> j + 1]
         ELSE ParsePairs(s, i + 1, <<>>)
    ELSE ParseFail

\* json.loads(text): ok is FALSE where Python raises JSONDecodeError.
json_loads(text) ==
    LET v == ParseValue(text, 1) IN
    IF v.ok /\ SkipWs(text, v.pos) = Len(text) + 1 THEN v ELSE ParseFail

(***************************************************************************)
(* SQLiteCache._make_key                                                   *)
(***************************************************************************)
\* hashlib.sha256(...).hexdigest(): the digest is taken to be injective.
sha256_hexdigest(s) == <<"sha256", s>>

\* What _make_key hashes: tool + params_str.
make_key_combined(tool, params) ==
    tool \o (IF IsNone(params) THEN <<>> ELSE json_dumps_canonical(params))

make_key(tool, params) == sha256_hexdigest(make_key_combined(tool, params))

(***************************************************************************)
(* Bounds of the model                                                     *)
(***************************************************************************)
\* Clock advances in a behaviour.
MaxTicks == 1
\* Direct cache calls (get/set) in a behaviour of CacheSpec.
MaxOps == 4
\* Remote requests (cache misses of the search tool) in a behaviour of Spec.
MaxRequests == 2
\* Items in a response of the remote API.
MaxItems == 2

\* The invocations that can be in flight at once.
Tasks == {1, 2}

(***************************************************************************)
(* State                                                                   *)
(***************************************************************************)
VARIABLES
    now,        \* int(time.time())
    ticks,      \* clock advances so far
    instance,   \* SQLiteCache._instance: "none" or "ready"
    db_exists,  \* whether cache.db exists on disk
    table,      \* the rows of table cache: [key, created_at, data]
    calls,      \* direct cache calls made so far
    requests,   \* remote requests issued so far
    ret,        \* the last direct cache call and what it returned
    lastSet,    \* per key, the latest set of this process: [key, data, at]
    task,       \* per invocation of async_call: its position, locals, result
    storeLog,   \* the results stored and not yet expired: [req, results, at, by, last]
    thread,     \* per thread inside SQLiteCache(): its line, self, what it got
    conn        \* the objects on which _init_db has assigned _conn

cacheVars == <<instance, db_exists, table>>
apiVars == <<ret, lastSet>>
toolVars == <<requests, task, storeLog>>
threadVars == <<thread, conn>>
vars == <<now, ticks, instance, db_exists, table, calls, ret, lastSet,
          requests, task, storeLog, thread, conn>>

\* The threads that may be inside SQLiteCache() at once; the object a thread
\* allocates at line 18 is named after the thread.
Threads == {"a", "b", "c"}

\* A thread about to evaluate line 17.
IdleThread == [pc |-> "17", self |-> "none", got |-> "none"]

DEFAULT_MAX_AGE == 7200

\* The clock advances by the maximum age, or by a second more.
ClockSteps == {DEFAULT_MAX_AGE, DEFAULT_MAX_AGE + 1}

(***************************************************************************)
(* SQLiteCache                                                             *)
(***************************************************************************)
\* Faulty _init_db: an existing cache.db is opened as it is.
init_db_keep(exists, tbl) == [db_exists |-> TRUE, table |-> tbl]

\* _init_db: an existing cache.db is unlinked, connect creates the file, and
\* the table is created if it does not exist.
init_db(exists, tbl) ==
    LET unlinked == IF exists THEN {} ELSE tbl
    IN  [db_exists |-> TRUE, table |-> unlinked]

\* Faulty __new__: the store is initialised at every construction.
new_always(inst, exists, tbl) == [instance |-> "ready"] @@ init_db(exists, tbl)

\* SQLiteCache(): __new__ initialises the store on first use only.
new(inst, exists, tbl) ==
    IF inst = "none"
    THEN [instance |-> "ready"] @@ init_db(exists, tbl)
    ELSE [instance |-> inst, db_exists |-> exists, table |-> tbl]

\* Faulty sweeps: one that deletes nothing, one that also deletes the entry
\* that is exactly DEFAULT_MAX_AGE old, one that deletes every entry.
cleanup_nothing(tbl, t) == tbl
cleanup_inclusive(tbl, t) ==
    LET cutoff == t - DEFAULT_MAX_AGE
    IN  {r \in tbl : ~(r.created_at <= cutoff)}
cleanup_everything(tbl, t) == {}

\* _cleanup: DELETE FROM cache WHERE created_at < now - DEFAULT_MAX_AGE
cleanup(tbl, t) ==
    LET cutoff == t - DEFAULT_MAX_AGE
    IN  {r \in tbl : ~(r.created_at < cutoff)}

\* Faulty get: the sweep deletes the expired entry of the key looked up only.
get_sweep_own_key(tbl, t, tool, params) ==
    LET key == make_key(tool, params)
        swept == {r \in tbl : r.key = key => ~(r.created_at < t - DEFAULT_MAX_AGE)}
        rows == {r \in swept : r.key = key}
    IN  [table |-> swept,
         value |-> IF rows # {}
                   THEN LET row == CHOOSE r \in rows : TRUE
                            parsed == json_loads(row.data)
                        IN  IF parsed.ok THEN parsed.val ELSE PyNone
                   ELSE PyNone]

\* get: the sweep, then SELECT data FROM cache WHERE key = ?; the row's data
\* is decoded, and a miss or an undecodable row gives None.
get(tbl, t, tool, params) ==
    LET swept == cleanup(tbl, t)
        key == make_key(tool, params)
        rows == {r \in swept : r.key = key}
    IN  [table |-> swept,
         value |-> IF rows # {}
                   THEN LET row == CHOOSE r \in rows : TRUE
                            parsed == json_loads(row.data)
                        IN  IF parsed.ok THEN parsed.val ELSE PyNone
                   ELSE PyNone]

\* Faulty set: INSERT OR IGNORE, an existing entry is kept as it is.
set_or_ignore(tbl, t, tool, params, data) ==
    LET key == make_key(tool, params)
    IN  IF \E r \in tbl : r.key = key
        THEN tbl
        ELSE tbl \cup {[key |-> key, created_at |-> t, data |-> json_dumps(data)]}

\* Faulty set: ON CONFLICT(key) DO UPDATE SET data alone, the entry keeps
\* the created_at of the first store.
set_keep_created(tbl, t, tool, params, data) ==
    LET key == make_key(tool, params)
    IN  IF \E r \in tbl : r.key = key
        THEN {IF r.key = key THEN [r EXCEPT !.data = json_dumps(data)] ELSE r :
                 r \in tbl}
        ELSE tbl \cup {[key |-> key, created_at |-> t, data |-> json_dumps(data)]}

\* Faulty set: a plain INSERT into a table whose key is not UNIQUE.
set_insert(tbl, t, tool, params, data) ==
    tbl \cup {[key |-> make_key(tool, params), created_at |-> t,
               data |-> json_dumps(data)]}

\* set: INSERT ... ON CONFLICT(key) DO UPDATE SET created_at, data
set(tbl, t, tool, params, data) ==
    LET key == make_key(tool, params)
        created_at == t
        data_json == json_dumps(data)
    IN  IF \E r \in tbl : r.key = key
        THEN {IF r.key = key
              THEN [r EXCEPT !.created_at = created_at, !.data = data_json]
              ELSE r : r \in tbl}
        ELSE tbl \cup {[key |-> key, created_at |-> created_at, data |-> data_json]}

(***************************************************************************)
(* Direct use of the cache by code of the process                          *)
(***************************************************************************)
ApiTools == {<<"g">>}
ApiParams == {PyNone, PyDict(<< <<<<"q">>, PyStr(<<"a">>)>> >>)}
ApiPayloads ==
    {PyDict(<< <<<<"results">>, PyList(<<PyStr(<<"T">>)>>)>> >>),
     PyDict(<< <<<<"results">>, PyList(<<PyStr(<<"U", "\"">>), PyInt(12)>>)>>,
               <<<<"a">>, PyDict(<<>>)>> >>)}


(***************************************************************************)
(* GoogleSearchTool: the pure parts of async_call                          *)
(***************************************************************************)
\* The configuration keys imported from const.
CONF_GOOGLE_CSE_API_KEY == <<"CONF_GOOGLE_CSE_API_KEY">>
CONF_GOOGLE_CSE_CX == <<"CONF_GOOGLE_CSE_CX">>
CONF_BRAVE_NUM_RESULTS == <<"CONF_BRAVE_NUM_RESULTS">>

\* The text of GoogleSearchTool.response_instruction, as one symbol.
response_instruction == <<"Review the results ... 2-3 sentences.">>

\* A raised exception carries its message.
Raised(msg) == [ok |-> FALSE, msg |-> msg]
Returned(v) == [ok |-> TRUE, val |-> v]

\* {**a, **b}
RECURSIVE MergePairs(_, _)
MergePairs(d, ps) ==
    IF ps = <<>> THEN d
    ELSE MergePairs(DictSet(d, Head(ps)[1], Head(ps)[2]), Tail(ps))

\* _get_config.  hass is [domain_data, entries]: hass.data[DOMAIN] (None when
\* the key is missing: KeyError) and the options of the domain's config
\* entries (next() of an empty iterator raises).
get_config(hass) ==
    IF IsNone(hass.domain_data) THEN Raised(<<"KeyError">>)
    ELSE LET config_data == DictGet(hass.domain_data, <<"config">>, PyDict(<<>>))
         IN  IF hass.entries = <<>> THEN Raised(<<"StopIteration">>)
             ELSE Returned(PyDict(MergePairs(config_data, Head(hass.entries)[2])[2]))

Min(a, b) == IF a < b THEN a ELSE b
Max(a, b) == IF a > b THEN a ELSE b

\* max(1, min(int(num_results), 10))
clamp_num_results(num_results) == Max(1, Min(num_results[2], 10))

\* Faulty wrap_response: the response is returned as it is.
wrap_response_skipped(response) == response

\* wrap_response: response["instruction"] = self.response_instruction
wrap_response(response) ==
    DictSet(response, <<"instruction">>, PyStr(response_instruction))

\* params, as built in async_call
request_params(query, num_results, google_api_key, google_cx) ==
    PyDict(<< <<<<"q">>, query>>,
              <<<<"num">>, PyInt(num_results)>>,
              <<<<"key">>, google_api_key>>,
              <<<<"cx">>, google_cx>> >>)

\* Faulty cache_key: params as sent, the API key included.
cache_key_with_secret(params) == params

\* cache_key = {k: v for k, v in params.items() if k != "key"}
cache_key(params) == PyDict(FilterPairs(params[2], <<"key">>))

\* The namespace async_call passes to the cache.
NAMESPACE == <<"google_cse_search">>

\* html.unescape, for the entities of the model's alphabet.
RECURSIVE html_unescape(_)
html_unescape(s) ==
    IF s = <<>> THEN <<>>
    ELSE (CASE Head(s) = "&amp;" -> <<"&">>
            [] Head(s) = "&lt;" -> <<"<">>
            [] Head(s) = "&gt;" -> <<">">>
            [] OTHER -> <<Head(s)>>) \o html_unescape(Tail(s))

\* re.sub(r"<[^>]+>", "", text)
RECURSIVE strip_tags(_)
strip_tags(s) ==
    IF s = <<>> THEN <<>>
    ELSE IF Head(s) = "<" /\ \E j \in 3..Len(s) : s[j] = ">"
                /\ Len(s) >= 2 /\ s[2] # ">"
         THEN LET j == CHOOSE k \in 3..Len(s) :
                          s[k] = ">" /\ \A m \in 3..(k - 1) : s[m] # ">"
              IN  strip_tags(SubSeq(s, j + 1, Len(s)))
         ELSE <<Head(s)>> \o strip_tags(Tail(s))

\* re.sub(r"\s+", " ", text)
RECURSIVE collapse_ws(_)
collapse_ws(s) ==
    IF s = <<>> THEN <<>>
    ELSE IF Head(s) = " " /\ Len(s) >= 2 /\ s[2] = " " THEN collapse_ws(Tail(s))
    ELSE <<Head(s)>> \o collapse_ws(Tail(s))

\* str.strip()
RECURSIVE strip(_)
strip(s) ==
    IF s = <<>> THEN <<>>
    ELSE IF Head(s) = " " THEN strip(Tail(s))
    ELSE IF s[Len(s)] = " " THEN strip(SubSeq(s, 1, Len(s) - 1))
    ELSE s

cleanup_text(text) == strip(collapse_ws(strip_tags(html_unescape(text))))

\* One item of the response, normalised to {title, description}.
normalise_item(item) ==
    LET title == DictGet(item, <<"title">>, PyStr(<<>>))
        plain == DictGet(item, <<"snippet">>, PyNone)
        snippet == IF Truthy(plain) THEN plain
                   ELSE DictGet(item, <<"htmlSnippet">>, PyStr(<<>>))
    IN  PyDict(<< <<<<"title">>, title>>,
                  <<<<"description">>, PyStr(cleanup_text(snippet[2]))>> >>)

\* results: one entry per item of data.get("items", []), in order.
extract_results(data) ==
    LET items == DictGet(data, <<"items">>, PyList(<<>>))[2]
    IN  [i \in 1..Len(items) |-> normalise_item(items[i])]

\* Faulty response: the instruction is in the response before it is stored.
make_response_instructed(results) ==
    PyDict(<< <<<<"results">>,
                IF Truthy(PyList(results)) THEN PyList(results)
                ELSE PyStr(<<"No results found">>)>>,
              <<<<"instruction">>, PyStr(response_instruction)>> >>)

\* Faulty response: the text is given for a non-empty results list as well.
make_response_no_list(results) ==
    PyDict(<< <<<<"results">>, PyStr(<<"No results found">>)>> >>)

\* response = {"results": results if results else "No results found"}
make_response(results) ==
    PyDict(<< <<<<"results">>,
                IF Truthy(PyList(results)) THEN PyList(results)
                ELSE PyStr(<<"No results found">>)>> >>)

NotConfigured ==
    PyDict(<< <<<<"error">>, PyStr(<<"Google Custom Search not configured">>)>> >>)
SearchError(status) ==
    PyDict(<< <<<<"error">>, PyStr(<<"Search error: ">> \o IntToStr(status))>> >>)
ErrorSearchingWeb(msg) ==
    PyDict(<< <<<<"error">>, PyStr(<<"Error searching web: ">> \o msg)>> >>)

(***************************************************************************)
(* The environment of the tool: configuration, queries, the remote API     *)
(***************************************************************************)
\* hass as _get_config reads it: [domain_data, entries], the data of the
\* domain (None when hass.data has no such key) and the options of the
\* domain's config entries.
Hass(config_data, entries) ==
    [domain_data |-> PyDict(<< <<<<"config">>, config_data>> >>), entries |-> entries]

Configured ==
    PyDict(<< <<CONF_GOOGLE_CSE_API_KEY, PyStr(<<"k">>)>>,
              <<CONF_GOOGLE_CSE_CX, PyStr(<<"x">>)>> >>)
NoApiKey == PyDict(<< <<CONF_GOOGLE_CSE_CX, PyStr(<<"x">>)>> >>)
EmptyCx ==
    PyDict(<< <<CONF_GOOGLE_CSE_API_KEY, PyStr(<<"k">>)>>,
              <<CONF_GOOGLE_CSE_CX, PyStr(<<>>)>> >>)
NoOptions == PyDict(<<>>)
RotatedKey == PyDict(<< <<CONF_GOOGLE_CSE_API_KEY, PyStr(<<"m">>)>> >>)
NumResults(n) == PyDict(<< <<CONF_BRAVE_NUM_RESULTS, PyInt(n)>> >>)

\* The invocations of the model: [hass, query].  The domain's data may be
\* gone and the domain may have no entry left.
Invocations ==
    {[hass |-> Hass(Configured, <<opt>>), query |-> PyStr(<<"a">>)] :
        opt \in {NoOptions, RotatedKey, NumResults(0)}}
    \cup {[hass |-> Hass(cd, <<NoOptions>>), query |-> PyStr(<<"a">>)] :
            cd \in {NoApiKey, EmptyCx}}
    \cup {[hass |-> Hass(Configured, <<>>), query |-> PyStr(<<"a">>)],
          [hass |-> [domain_data |-> PyNone, entries |-> <<NoOptions>>],
           query |-> PyStr(<<"a">>)]}

\* The i-th item the remote API has for a query.
RemoteItem(i) ==
    IF i % 2 = 1
    THEN PyDict(<< <<<<"title">>, PyStr(<<"T">>)>>,
                   <<<<"snippet">>, PyStr(<<"s">>)>> >>)
    ELSE PyDict(<< <<<<"title">>, PyStr(<<"U">>)>>,
                   <<<<"htmlSnippet">>, PyStr(<<"<", "b", ">", "a", " ", " ", "&amp;">>)>> >>)

\* What resp.json() gives: a body without "items", or with no item, one
\* item or MaxItems of them (the API is not bound to the num it was sent).
ResponseBodies ==
    {PyDict(<<>>)}
    \cup {PyDict(<< <<<<"items">>, PyList([i \in 1..n |-> RemoteItem(i)])>> >>) :
            n \in {0, 1, MaxItems}}

HttpStatuses == {200, 500}

(***************************************************************************)
(* An invocation of async_call.  Beside its position (pc), its locals and  *)
(* its result (value), the record of an invocation keeps what it did: the  *)
(* remote requests it issued (http), the status and the number of items    *)
(* it received, the cache operations it ran (ops) and what they did to     *)
(* the table.                                                              *)
(***************************************************************************)
IdleTask ==
    [pc |-> "idle", query |-> PyNone, google_api_key |-> PyNone,
     google_cx |-> PyNone, num_results |-> 0, value |-> PyNone,
     http |-> 0, status |-> 0, items |-> 0, ops |-> {}, added |-> FALSE,
     removedLive |-> FALSE, removedExpired |-> FALSE, afterEmpty |-> FALSE,
     fresh |-> FALSE]

\* The request of an invocation, as the cache is meant to tell requests apart.
Req(tk) == [q |-> tk.query, num |-> tk.num_results, cx |-> tk.google_cx]

TaskParams(tk) ==
    request_params(tk.query, tk.num_results, tk.google_api_key, tk.google_cx)

\* What a step of an invocation did to the table, at clock t.
Observe(tk, tbl, tbl2, t) ==
    [tk EXCEPT
        !.added = @ \/ (tbl2 \ tbl # {}),
        !.removedLive =
            @ \/ \E r \in tbl \ tbl2 : r.created_at >= t - 7200
                                       /\ ~\E r2 \in tbl2 : r2.key = r.key,
        !.removedExpired =
            @ \/ \E r \in tbl \ tbl2 : r.created_at < t - 7200
                                       /\ ~\E r2 \in tbl2 : r2.key = r.key]

\* The log after the invocation has stored results: the entry is the last
\* of its request.
Logged(tk, results) ==
    LET entry == [req |-> Req(tk), results |-> results, at |-> now,
                  by |-> tk.google_api_key, last |-> TRUE]
    IN  {IF e.req = entry.req THEN [e EXCEPT !.last = FALSE] ELSE e :
            e \in {x \in storeLog : [x EXCEPT !.last = TRUE] # entry}}
        \cup {entry}

Free(t) == task[t].pc \in {"idle", "done", "raised"}

\* The record of an invocation that has returned (or raised) is kept for one
\* state, for its caller to read, and is dropped by the next step; fresh
\* marks an invocation in the state its call has led to.
Others ==
    [t \in Tasks |-> IF task[t].pc \in {"done", "raised"} THEN IdleTask
                     ELSE [task[t] EXCEPT !.fresh = FALSE, !.afterEmpty = FALSE]]

\* What an earlier process may have left in cache.db.
Leftover ==
    {[key |-> make_key(NAMESPACE,
                       cache_key(request_params(PyStr(<<"a">>), 2, PyStr(<<"k">>),
                                                PyStr(<<"x">>)))),
      created_at |-> 0,
      data |-> json_dumps(make_response(<<normalise_item(RemoteItem(1))>>))]}

\* The process starts with no instance; cache.db may be there, left by an
\* earlier process, empty or not.
Init ==
    /\ now = 0
    /\ ticks = 0
    /\ instance = "none"
    /\ db_exists \in BOOLEAN
    /\ table \in (IF db_exists THEN {{}, Leftover} ELSE {{}})
    /\ calls = 0
    /\ ret = [op |-> "none"]
    /\ lastSet = {}
    /\ requests = 0
    /\ task = [t \in Tasks |-> IdleTask]
    /\ storeLog = {}
    /\ thread = [t \in Threads |-> IdleThread]
    /\ conn = {}

\* time passes
Tick ==
    /\ ticks < MaxTicks
    /\ \E d \in ClockSteps : now' = now + d
    /\ ticks' = ticks + 1
    /\ task' = Others
    /\ storeLog' = {e \in storeLog : now' - e.at <= DEFAULT_MAX_AGE}
    /\ UNCHANGED <<cacheVars, calls, apiVars, requests, threadVars>>

\* The host process restarts: the class attribute is gone, the file stays.
Restart ==
    /\ instance # "none"
    /\ instance' = "none"
    /\ lastSet' = {}
    /\ ret' = [op |-> "none"]
    /\ UNCHANGED <<now, ticks, db_exists, table, calls, toolVars, threadVars>>

\* async_call from its start to its first await (lines 67-96): the
\* configuration is read, the credentials are checked, the cache is looked
\* up, and on a miss the GET is issued.
Call(t, hass, query) ==
    /\ Free(t)
    /\ \A u \in Tasks : Free(u) => t <= u
    /\ UNCHANGED <<now, ticks, calls, apiVars, storeLog, threadVars>>
    /\ \E config \in {get_config(hass)} :
       IF ~config.ok
       THEN /\ task' = [Others EXCEPT ![t] =
                           [IdleTask EXCEPT !.pc = "raised", !.value = PyStr(config.msg)]]
            /\ UNCHANGED <<cacheVars, requests>>
       ELSE
       \E google_api_key \in {DictGet(config.val, CONF_GOOGLE_CSE_API_KEY, PyNone)},
          google_cx \in {DictGet(config.val, CONF_GOOGLE_CSE_CX, PyNone)},
          num_results \in {clamp_num_results(
                               DictGet(config.val, CONF_BRAVE_NUM_RESULTS, PyInt(2)))} :
       \E started \in {[IdleTask EXCEPT !.query = query,
                                        !.google_api_key = google_api_key,
                                        !.google_cx = google_cx,
                                        !.num_results = num_results,
                                        !.fresh = TRUE]} :
       IF ~Truthy(google_api_key) \/ ~Truthy(google_cx)
       THEN /\ task' = [Others EXCEPT ![t] =
                           [started EXCEPT !.pc = "done", !.value = NotConfigured]]
            /\ UNCHANGED <<cacheVars, requests>>
       ELSE
       \E cache \in {new(instance, db_exists, table)} :
       \E cached \in {get(cache.table, now, NAMESPACE, cache_key(TaskParams(started)))} :
       \E looked \in {[Observe(started, table, cached.table, now) EXCEPT
                          !.ops = {"new", "sweep", "select"}
                                  \cup (IF instance = "none" THEN {"init"} ELSE {}),
                          !.afterEmpty =
                              \E u \in Tasks : /\ task[u].pc = "done"
                                               /\ task[u].status = 200
                                               /\ task[u].items = 0
                                               /\ IsDict(task[u].value)
                                               /\ <<"results">> \in DictKeys(task[u].value)
                                               /\ Req(task[u]) = Req(started)]} :
           /\ instance' = cache.instance
           /\ db_exists' = cache.db_exists
           /\ table' = cached.table
           /\ IF Truthy(cached.value)
              THEN /\ requests' = requests
                   /\ task' = [Others EXCEPT ![t] =
                          [looked EXCEPT !.pc = "done",
                                         !.value = wrap_response(cached.value)]]
              ELSE /\ requests < MaxRequests
                   /\ requests' = requests + 1
                   /\ task' = [Others EXCEPT ![t] =
                          [looked EXCEPT !.pc = "await", !.http = @ + 1]]

\* The invocation waits at session.get and then, when the status is 200, at
\* resp.json().  It reads and writes nothing shared between the two, so the
\* two awaits are taken as one: the steps below are the ways the wait ends.

\* session.get raises: the except clause returns the error envelope.
NetworkError(t) ==
    /\ task[t].pc = "await"
    /\ task' = [Others EXCEPT ![t].pc = "done",
                              ![t].value = ErrorSearchingWeb(<<"ClientError">>)]
    /\ UNCHANGED <<now, ticks, cacheVars, calls, apiVars, requests,
                   storeLog, threadVars>>

\* The GET is answered with a status that is not 200 (lines 119-122).
ErrorStatus(t, status) ==
    /\ task[t].pc = "await"
    /\ status # 200
    /\ task' = [Others EXCEPT ![t].pc = "done", ![t].status = status,
                              ![t].value = SearchError(status)]
    /\ UNCHANGED <<now, ticks, cacheVars, calls, apiVars, requests,
                   storeLog, threadVars>>

\* The status is 200 and resp.json() raises on a malformed body.
MalformedBody(t) ==
    /\ task[t].pc = "await"
    /\ task' = [Others EXCEPT ![t].pc = "done", ![t].status = 200,
                              ![t].value = ErrorSearchingWeb(<<"ContentTypeError">>)]
    /\ UNCHANGED <<now, ticks, cacheVars, calls, apiVars, requests,
                   storeLog, threadVars>>

\* The status is 200 and resp.json() gives the body (lines 100-117): the
\* items are normalised, a non-empty list is stored and returned with the
\* instruction, an empty one is returned as it is.
Body(t, data) ==
    /\ task[t].pc = "await"
    /\ \E results \in {extract_results(data)} :
       \E tk \in {[Others[t] EXCEPT !.status = 200, !.items = Len(results)]},
          response \in {make_response(results)} :
           IF Truthy(PyList(results))
           THEN \E stored \in {set(table, now, NAMESPACE, cache_key(TaskParams(tk)),
                                   response)} :
                /\ table' = stored
                /\ storeLog' = Logged(tk, PyList(results))
                /\ task' = [Others EXCEPT ![t] =
                       [Observe(tk, table, stored, now) EXCEPT
                           !.pc = "done", !.ops = @ \cup {"set"},
                           !.value = wrap_response(response)]]
           ELSE /\ table' = table
                /\ storeLog' = storeLog
                /\ task' = [Others EXCEPT ![t] =
                       [tk EXCEPT !.pc = "done", !.value = response]]
    /\ UNCHANGED <<now, ticks, instance, db_exists, calls, apiVars,
                   requests, threadVars>>

Next ==
    \/ Tick
    \/ \E t \in Tasks, inv \in Invocations : Call(t, inv.hass, inv.query)
    \/ \E t \in Tasks : NetworkError(t)
    \/ \E t \in Tasks, status \in HttpStatuses : ErrorStatus(t, status)
    \/ \E t \in Tasks : MalformedBody(t)
    \/ \E t \in Tasks, data \in ResponseBodies : Body(t, data)

Spec == Init /\ [][Next]_vars

(***************************************************************************)
(* Direct use of the cache: SQLiteCache().get and SQLiteCache().set        *)
(***************************************************************************)
ApiGet(tool, params) ==
    /\ calls < MaxOps
    /\ \E c \in {new(instance, db_exists, table)}, key \in {make_key(tool, params)} :
       \E g \in {get(c.table, now, tool, params)} :
           /\ instance' = c.instance
           /\ db_exists' = c.db_exists
           /\ table' = g.table
           /\ ret' = [op |-> "get", key |-> key, at |-> now, value |-> g.value,
                      found |-> {r \in c.table : r.key = key},
                      before |-> {r \in table : r.key = key},
                      swept |-> c.table \ g.table]
    /\ calls' = calls + 1
    /\ UNCHANGED <<now, ticks, lastSet, toolVars, threadVars>>

ApiSet(tool, params, data) ==
    /\ calls < MaxOps
    /\ \E c \in {new(instance, db_exists, table)}, key \in {make_key(tool, params)} :
           /\ instance' = c.instance
           /\ db_exists' = c.db_exists
           /\ table' = set(c.table, now, tool, params, data)
           /\ ret' = [op |-> "set", key |-> key, at |-> now, value |-> data,
                      found |-> {r \in c.table : r.key = key},
                      before |-> {r \in table : r.key = key}]
           /\ lastSet' = {s \in lastSet : s.key # key}
                         \cup {[key |-> key, data |-> data, at |-> now]}
    /\ calls' = calls + 1
    /\ UNCHANGED <<now, ticks, toolVars, threadVars>>

CacheNext ==
    \/ Tick
    \/ Restart
    \/ \E tool \in ApiTools, params \in ApiParams : ApiGet(tool, params)
    \/ \E tool \in ApiTools, params \in ApiParams, data \in ApiPayloads :
          ApiSet(tool, params, data)

CacheSpec == Init /\ [][CacheNext]_vars

(***************************************************************************)
(* Claims about the cache (CacheSpec)                                      *)
(***************************************************************************)
\* C1: get never returns the payload of an entry with
\* created_at < now - DEFAULT_MAX_AGE, now being the clock at the get: a get
\* that finds only such an entry under its key returns None, and a get that
\* returns a payload found an entry under its key that is not that old.
C1_ExpiredNeverReturned ==
    ret.op = "get" =>
        /\ (\A r \in ret.found : r.created_at < ret.at - 7200) => IsNone(ret.value)
        /\ ~IsNone(ret.value) =>
              \E r \in ret.found :
                  /\ r.created_at >= ret.at - 7200
                  /\ json_loads(r.data).val = ret.value

\* C1 witness: a get looked up a key whose only entry had expired.
C1_Witness ==
    /\ ret.op = "get"
    /\ ret.found # {}
    /\ \A r \in ret.found : r.created_at < ret.at - 7200
    /\ IsNone(ret.value)

\* C2: a get returns exactly the payload of the latest set of its key when
\* the clock has advanced by at most DEFAULT_MAX_AGE since that set (7200
\* included), whatever gets and sets of other keys came in between.
C2_RoundTrip ==
    ret.op = "get" =>
        \A s \in lastSet :
            (s.key = ret.key /\ ret.at - s.at <= 7200) => ret.value = s.data

\* C2 witness: a get exactly DEFAULT_MAX_AGE after the set of its key, with
\* an entry of another key in the table, returned the payload.
C2_Witness ==
    /\ ret.op = "get"
    /\ \E s \in lastSet :
          /\ s.key = ret.key
          /\ ret.at - s.at = 7200
          /\ ret.value = s.data
    /\ \E r \in table : r.key # ret.key

(***************************************************************************)
(* Claims about async_call (Spec)                                          *)
(***************************************************************************)
\* The invocation has looked the cache up in the step that led to this state.
LookedUp(tk) == tk.fresh /\ "select" \in tk.ops

\* The envelope of a results list with the instruction.
Instructed(results) ==
    PyDict(<< <<<<"results">>, results>>,
              <<<<"instruction">>, PyStr(response_instruction)>> >>)

\* The entries the table holds for the request of an invocation.
EntriesOf(tk) ==
    {r \in table : r.key = make_key(NAMESPACE, cache_key(TaskParams(tk)))}

\* C3 as stated: an invocation made within DEFAULT_MAX_AGE of a store of the
\* same request (query, clamped count, cx) issues no remote request and
\* returns the results of that store, whichever store of the request it was,
\* with the instruction; the table holds exactly one entry for the request.
C3_HitReturnsAnyStored ==
    \A t \in Tasks : \A e \in storeLog :
        (LookedUp(task[t]) /\ e.req = Req(task[t]) /\ now - e.at <= 7200)
        => /\ task[t].pc = "done"
           /\ task[t].http = 0
           /\ task[t].value = Instructed(e.results)
           /\ Cardinality(EntriesOf(task[t])) = 1

\* C3, amended: an invocation made within DEFAULT_MAX_AGE of the last store
\* of the same request issues no remote request and returns the results of
\* that last store with the instruction; the table holds exactly one entry
\* for the request.
C3_HitReturnsLastStored ==
    \A t \in Tasks : \A e \in storeLog :
        (LookedUp(task[t]) /\ e.last /\ e.req = Req(task[t]) /\ now - e.at <= 7200)
        => /\ task[t].pc = "done"
           /\ task[t].http = 0
           /\ task[t].value = Instructed(e.results)
           /\ Cardinality(EntriesOf(task[t])) = 1

\* C3 witness: a hit exactly DEFAULT_MAX_AGE after the store of its request.
C3_Witness ==
    \E t \in Tasks : \E e \in storeLog :
        /\ LookedUp(task[t]) /\ e.last /\ e.req = Req(task[t])
        /\ now - e.at = 7200
        /\ task[t].pc = "done" /\ task[t].http = 0
        /\ task[t].value = Instructed(e.results)

\* C4 as stated: the invocation that follows one of the same request that
\* got 200 with no item misses the cache and calls the remote API.
C4_NextIdenticalMisses ==
    \A t \in Tasks :
        (LookedUp(task[t]) /\ task[t].afterEmpty)
        => task[t].pc = "await" /\ task[t].http = 1

\* C4, amended: an invocation that got 200 with no item returns
\* {results: "No results found"} and stores nothing; no entry of the table
\* holds an empty result; the invocation that follows one of the same request
\* misses the cache and calls the remote API, unless another invocation of the
\* request has stored a result, which it then returns.
C4_EmptyNeverStored ==
    /\ \A t \in Tasks :
          (task[t].pc = "done" /\ task[t].status = 200 /\ task[t].items = 0
           /\ IsDict(task[t].value) /\ <<"error">> \notin DictKeys(task[t].value))
          => /\ task[t].value =
                   PyDict(<< <<<<"results">>, PyStr(<<"No results found">>)>> >>)
             /\ "set" \notin task[t].ops
             /\ ~task[t].added
    /\ \A r \in table :
          Truthy(DictGet(json_loads(r.data).val, <<"results">>, PyList(<<>>)))
    /\ \A t \in Tasks :
          (LookedUp(task[t]) /\ task[t].afterEmpty)
          => \/ task[t].pc = "await" /\ task[t].http = 1
             \/ /\ task[t].pc = "done" /\ task[t].http = 0
                /\ \E e \in storeLog :
                      /\ e.last /\ e.req = Req(task[t])
                      /\ task[t].value = Instructed(e.results)

\* C4 witness: right after an invocation returned "No results found", an
\* invocation of the same request has missed and called the remote API.
C4_Witness ==
    \E t \in Tasks :
        /\ LookedUp(task[t]) /\ task[t].afterEmpty
        /\ task[t].pc = "await" /\ task[t].http = 1
        /\ EntriesOf(task[t]) = {}

\* The value is absent from the configuration, or empty.
Absent(v) == v = PyNone \/ v = PyStr(<<>>)

\* C5: a step in which an invocation finds the API key or the cx absent (or
\* empty) returns {error: "Google Custom Search not configured"}, runs no
\* cache operation, leaves the store (instance, file, table) as it is and
\* issues no remote request.
C5_NotConfiguredTouchesNothing ==
    [][\A t \in Tasks :
          (/\ task'[t].fresh
           /\ Absent(task'[t].google_api_key) \/ Absent(task'[t].google_cx))
          => /\ task'[t].pc = "done"
             /\ task'[t].value =
                   PyDict(<< <<<<"error">>,
                                PyStr(<<"Google Custom Search not configured">>)>> >>)
             /\ task'[t].ops = {}
             /\ task'[t].http = 0
             /\ instance' = instance /\ db_exists' = db_exists /\ table' = table
             /\ requests' = requests]_vars

\* C5 witness: an invocation with an empty cx has returned the error, and
\* the store has never been initialised.
C5_Witness ==
    \E t \in Tasks :
        /\ task[t].fresh /\ task[t].pc = "done"
        /\ task[t].google_cx = PyStr(<<>>)
        /\ task[t].value = NotConfigured
        /\ instance = "none" /\ ~db_exists

\* C6 as stated: no invocation propagates an exception to its caller.
C6_NoExceptionPropagates == \A t \in Tasks : task[t].pc # "raised"

\* C7 as stated: an invocation answered with a status other than 200 returns
\* {error: "Search error: <status>"}, has issued one remote request, and has
\* left the table as it was: it added, changed and removed no entry.
C7_CacheUntouched ==
    \A t \in Tasks :
        (task[t].pc = "done" /\ task[t].status \notin {0, 200})
        => /\ task[t].value =
                 PyDict(<< <<<<"error">>,
                              PyStr(<<"Search error: ">> \o IntToStr(task[t].status))>> >>)
           /\ task[t].http = 1
           /\ "set" \notin task[t].ops
           /\ ~task[t].added /\ ~task[t].removedLive /\ ~task[t].removedExpired

\* C7, amended: such an invocation returns {error: "Search error: <status>"},
\* has issued one remote request, has run no set and has added or changed no
\* entry; the entries it removed had expired at its lookup, or were in the
\* file it unlinked as the first user of the store in the process.
C7_ErrorStatusAddsNothing ==
    \A t \in Tasks :
        (task[t].pc = "done" /\ task[t].status \notin {0, 200})
        => /\ task[t].value =
                 PyDict(<< <<<<"error">>,
                              PyStr(<<"Search error: ">> \o IntToStr(task[t].status))>> >>)
           /\ task[t].http = 1
           /\ "set" \notin task[t].ops
           /\ ~task[t].added
           /\ task[t].removedLive => "init" \in task[t].ops

\* C7 witness: an invocation answered with 500 has returned the error; its
\* lookup removed an expired entry and an entry is left in the table.
C7_Witness ==
    \E t \in Tasks :
        /\ task[t].pc = "done" /\ task[t].status = 500
        /\ task[t].value = SearchError(500)
        /\ task[t].removedExpired
        /\ table # {}

\* The API keys of the model's configurations.
ApiKeySymbols == {"k", "m"}

\* C8: no API key is in the input hashed into the key of an entry, and an
\* invocation made within DEFAULT_MAX_AGE of the last store of its request
\* by an invocation with another API key is served from that entry.
C8_KeyIgnoresApiKey ==
    /\ \A r \in table : \A i \in 1..Len(r.key[2]) : r.key[2][i] \notin ApiKeySymbols
    /\ \A t \in Tasks : \A e \in storeLog :
          (/\ LookedUp(task[t]) /\ e.last /\ e.req = Req(task[t])
           /\ now - e.at <= 7200
           /\ e.by # task[t].google_api_key)
          => /\ task[t].pc = "done"
             /\ task[t].http = 0
             /\ DictGet(task[t].value, <<"results">>, PyNone) = e.results

\* C8 witness: an invocation with the API key "m" has been served from the
\* entry an invocation with the API key "k" stored.
C8_Witness ==
    \E t \in Tasks : \E e \in storeLog :
        /\ LookedUp(task[t]) /\ e.last /\ e.req = Req(task[t])
        /\ e.by = PyStr(<<"k">>) /\ task[t].google_api_key = PyStr(<<"m">>)
        /\ task[t].pc = "done" /\ task[t].http = 0
        /\ DictGet(task[t].value, <<"results">>, PyNone) = e.results

\* C9 as stated: every return that follows the cache check carries the
\* instruction.
C9_InstructionOnEveryReturn ==
    \A t \in Tasks :
        (task[t].pc = "done" /\ "select" \in task[t].ops)
        => DictGet(task[t].value, <<"instruction">>, PyNone) = PyStr(response_instruction)

\* C9, amended: a return that follows the cache check carries the
\* instruction exactly when it carries a list of results (a hit, or a miss
\* answered with at least one item); "No results found" and the error
\* envelopes carry none.
C9_InstructionWithResultsList ==
    \A t \in Tasks :
        (task[t].pc = "done" /\ "select" \in task[t].ops)
        => IF IsList(DictGet(task[t].value, <<"results">>, PyNone))
           THEN DictGet(task[t].value, <<"instruction">>, PyNone)
                    = PyStr(response_instruction)
           ELSE <<"instruction">> \notin DictKeys(task[t].value)

\* C9 witness: a hit has returned its results with the instruction.
C9_Witness ==
    \E t \in Tasks :
        /\ task[t].pc = "done" /\ "select" \in task[t].ops /\ task[t].http = 0
        /\ IsList(DictGet(task[t].value, <<"results">>, PyNone))
        /\ DictGet(task[t].value, <<"instruction">>, PyNone) = PyStr(response_instruction)

\* C10: no entry of the table holds a payload with an instruction field, and
\* a hit, which returns the payload with the instruction, adds or changes no
\* entry.
C10_InstructionNeverStored ==
    /\ \A r \in table : <<"instruction">> \notin DictKeys(json_loads(r.data).val)
    /\ \A r \in table : \A i \in 1..Len(r.data) : r.data[i] # "instruction"
    /\ \A t \in Tasks :
          (task[t].pc = "done" /\ "select" \in task[t].ops /\ task[t].http = 0)
          => ~task[t].added

\* C10 witness: a hit has returned the instruction, and the entry it was
\* served from holds none.
C10_Witness ==
    \E t \in Tasks :
        /\ task[t].pc = "done" /\ "select" \in task[t].ops /\ task[t].http = 0
        /\ <<"instruction">> \in DictKeys(task[t].value)
        /\ \E r \in EntriesOf(task[t]) :
              <<"instruction">> \notin DictKeys(json_loads(r.data).val)

(***************************************************************************)
(* Further claims about the cache (CacheSpec)                              *)
(***************************************************************************)
\* The table the store holds once SQLiteCache() has returned.
Constructed == new(instance, db_exists, table).table

\* C11: in every state the table holds at most one entry per key; and a set
\* leaves exactly one entry of its key, with the data it was given and the
\* clock value of the set as created_at, whether or not the key had an entry
\* before, and leaves the entries of the other keys as they were.
C11_Upsert ==
    /\ [](\A r1 \in table : \A r2 \in table : r1.key = r2.key => r1 = r2)
    /\ [][(calls' = calls + 1 /\ ret'.op = "set")
          => /\ {r \in table' : r.key = ret'.key}
                  = {[key |-> ret'.key, created_at |-> now,
                      data |-> json_dumps(ret'.value)]}
             /\ {r \in table' : r.key # ret'.key}
                  = {r \in Constructed : r.key # ret'.key}]_vars

\* C11 witness: a set has replaced an entry that was made at an earlier
\* clock value with other data, and an entry of another key is in the table.
C11_Witness ==
    /\ ret.op = "set"
    /\ \E r \in ret.found : r.created_at < ret.at /\ r.data # json_dumps(ret.value)
    /\ \E r \in table : r.key = ret.key /\ r.created_at = ret.at
    /\ \E r \in table : r.key # ret.key
    /\ Cardinality(table) = 2

(***************************************************************************)
(* SQLiteCache._make_key on its own (KeySpec): two calls, on arguments      *)
(* drawn from the sets below; ret holds the arguments and then the results. *)
(***************************************************************************)
\* Namespaces: a plain one, one that ends in JSON text, the tool's own.
KeyTools == {<<"g">>, <<"g", "{", "}">>, NAMESPACE}

\* The items parameter mappings are made of.
KeyItems ==
    {<< <<"q">>, PyStr(<<"a">>) >>,
     << <<"num">>, PyInt(2) >>,
     << <<"cx">>, PyDict(<< <<<<"b">>, PyInt(1)>>, <<<<"a">>, PyInt(2)>> >>) >>,
     << <<"cx">>, PyDict(<< <<<<"a">>, PyInt(2)>>, <<<<"b">>, PyInt(1)>> >>) >>}

\* params: None, or a mapping of up to three of the items, in any insertion
\* order, with no key twice.
KeyParams ==
    {PyNone}
    \cup {PyDict(ps) :
            ps \in {f \in UNION {[1..n -> KeyItems] : n \in 0..3} :
                       \A i \in DOMAIN f : \A j \in DOMAIN f :
                           f[i][1] = f[j][1] => i = j}}

KeyInit ==
    /\ now = 0
    /\ ticks = 0
    /\ instance = "none"
    /\ db_exists = FALSE
    /\ table = {}
    /\ calls = 0
    /\ lastSet = {}
    /\ requests = 0
    /\ task = [t \in Tasks |-> IdleTask]
    /\ storeLog = {}
    /\ thread = [t \in Threads |-> IdleThread]
    /\ conn = {}
    /\ \E tool1 \in KeyTools, tool2 \in KeyTools :
       \E params1 \in KeyParams, params2 \in KeyParams :
          ret = [op |-> "args", tool1 |-> tool1, params1 |-> params1,
                 tool2 |-> tool2, params2 |-> params2]

\* _make_key(tool1, params1) and _make_key(tool2, params2)
MakeKeys ==
    /\ ret.op = "args"
    /\ ret' = [op |-> "keys", tool1 |-> ret.tool1, params1 |-> ret.params1,
               tool2 |-> ret.tool2, params2 |-> ret.params2,
               combined1 |-> make_key_combined(ret.tool1, ret.params1),
               combined2 |-> make_key_combined(ret.tool2, ret.params2),
               key1 |-> make_key(ret.tool1, ret.params1),
               key2 |-> make_key(ret.tool2, ret.params2)]
    /\ UNCHANGED <<now, ticks, cacheVars, calls, lastSet, toolVars, threadVars>>

KeyNext == MakeKeys

KeySpec == KeyInit /\ [][KeyNext]_vars

\* C12: two calls of _make_key with the same namespace and with mappings
\* that hold the same items (at every level), in whatever insertion order,
\* return the same key; in particular a call repeated on the same arguments
\* returns the same key.
C12_KeyOrderInsensitive ==
    ret.op = "keys" =>
        /\ (ret.tool1 = ret.tool2 /\ PyEq(ret.params1, ret.params2))
               => ret.key1 = ret.key2
        /\ ret.key1 = make_key(ret.tool1, ret.params1)

\* C12 witness: the keys of two mappings of three items, inserted in
\* different orders, are the same.
C12_Witness ==
    /\ ret.op = "keys"
    /\ ret.tool1 = ret.tool2
    /\ IsDict(ret.params1) /\ Len(ret.params1[2]) = 3
    /\ ret.params1 # ret.params2
    /\ PyEq(ret.params1, ret.params2)
    /\ ret.key1 = ret.key2

\* C19: two calls of _make_key that differ in the namespace or in the
\* mapping (None and the empty mapping being different) hash different
\* strings, and return different keys.
C19_CombinedInjective ==
    ret.op = "keys" =>
        ((ret.tool1 # ret.tool2 \/ ~PyEq(ret.params1, ret.params2))
         => /\ ret.combined1 # ret.combined2
            /\ ret.key1 # ret.key2)

(***************************************************************************)
(* Claims about the life of the store (CacheSpec)                          *)
(***************************************************************************)
\* C13: a get or set made when the store has been initialised in the
\* process constructs nothing anew: _instance and cache.db stay as they
\* are, and every entry that has not expired is still in the table after the
\* call, as it was or, when the call is a set of its key, replaced by it.
C13_InitOnce ==
    [][(instance = "ready" /\ calls' = calls + 1)
       => /\ instance' = "ready"
          /\ db_exists' = db_exists
          /\ \A r \in table :
                r.created_at >= now - DEFAULT_MAX_AGE
                => \/ r \in table'
                   \/ /\ ret'.op = "set" /\ ret'.key = r.key
                      /\ \E r2 \in table' : r2.key = r.key]_vars

\* C13 witness: a get has returned a payload, which a set of this process
\* stored behind an earlier construction, and an entry of another key is
\* still there as well.
C13_Witness ==
    /\ ret.op = "get"
    /\ instance = "ready"
    /\ ~IsNone(ret.value)
    /\ \E s \in lastSet : s.key = ret.key
    /\ \E r \in table : r.key # ret.key

\* C14: a get returns only what a set of the same process stored: the first
\* get or set of a process leaves nothing in the table but what it has
\* stored itself, whatever the age of what cache.db held, and every payload a
\* get returns is the payload of a set made since the process started.
C14_CleanOnStart ==
    /\ [](ret.op = "get" /\ ~IsNone(ret.value)
          => \E s \in lastSet : s.key = ret.key /\ s.data = ret.value)
    /\ [][(instance = "none" /\ calls' = calls + 1)
          => /\ ret'.op = "get" => IsNone(ret'.value) /\ table' = {}
             /\ ret'.op = "set"
                => table' = {[key |-> ret'.key, created_at |-> now,
                              data |-> json_dumps(ret'.value)]}]_vars

\* C14 witness: the first get of a process has returned None for a key of
\* which cache.db held an unexpired entry, and has left the table empty.
C14_Witness ==
    /\ ret.op = "get"
    /\ \E r \in ret.before : r.created_at >= ret.at - DEFAULT_MAX_AGE
    /\ ret.found = {}
    /\ IsNone(ret.value)
    /\ table = {}

\* C18: a get, whatever key it looks up, leaves of the entries the store
\* held exactly those with created_at >= now - DEFAULT_MAX_AGE, of every key;
\* a set leaves every entry of another key as it was and an entry for its
\* own key.
C18_GlobalSweep ==
    [][(calls' = calls + 1)
       => /\ ret'.op = "get"
             => table' = {r \in Constructed :
                             r.created_at >= now - DEFAULT_MAX_AGE}
          /\ ret'.op = "set"
             => \A r \in Constructed :
                   IF r.key = ret'.key
                   THEN \E r2 \in table' : r2.key = r.key
                   ELSE r \in table']_vars

\* C18 witness: a get has swept the expired entry of another key than the
\* one it looked up, and has kept an unexpired entry.
C18_Witness ==
    /\ ret.op = "get"
    /\ \E r \in ret.swept : r.key # ret.key /\ r.created_at < ret.at - DEFAULT_MAX_AGE
    /\ \E r \in table : r.created_at >= ret.at - DEFAULT_MAX_AGE
    /\ \A r \in table : r.created_at >= now - DEFAULT_MAX_AGE

(***************************************************************************)
(* SQLiteCache() entered by several threads (ThreadSpec)                   *)
(*                                                                         *)
(* __new__ and _init_db take no lock, so threads interleave between the    *)
(* lines.  _instance is "none" or the name of the object assigned to it.   *)
(***************************************************************************)

\* The process starts as in Init, with every thread about to enter __new__.
ThreadInit ==
    /\ now = 0
    /\ ticks = 0
    /\ instance = "none"
    /\ db_exists \in BOOLEAN
    /\ table \in (IF db_exists THEN {{}, Leftover} ELSE {{}})
    /\ calls = 0
    /\ ret = [op |-> "none"]
    /\ lastSet = {}
    /\ requests = 0
    /\ task = [t \in Tasks |-> IdleTask]
    /\ storeLog = {}
    /\ thread = [t \in Threads |-> IdleThread]
    /\ conn = {}

\* line 17: if cls._instance is None
Check(t) ==
    /\ thread[t].pc = "17"
    /\ thread' = [thread EXCEPT ![t].pc =
                      IF instance = "none" THEN "18" ELSE "20"]
    /\ UNCHANGED <<now, ticks, cacheVars, calls, apiVars, toolVars, conn>>

\* line 18: cls._instance = super().__new__(cls)
Allocate(t) ==
    /\ thread[t].pc = "18"
    /\ instance' = t
    /\ thread' = [thread EXCEPT ![t].pc = "19"]
    /\ UNCHANGED <<now, ticks, db_exists, table, calls, apiVars, toolVars,
                   conn>>

\* line 19: cls._instance._init_db() is called on whatever _instance is now
EnterInitDb(t) ==
    /\ thread[t].pc = "19"
    /\ thread' = [thread EXCEPT ![t].pc = "27", ![t].self = instance]
    /\ UNCHANGED <<now, ticks, cacheVars, calls, apiVars, toolVars, conn>>

\* line 27: if db_path.exists()
Exists(t) ==
    /\ thread[t].pc = "27"
    /\ thread' = [thread EXCEPT ![t].pc = IF db_exists THEN "29" ELSE "31"]
    /\ UNCHANGED <<now, ticks, cacheVars, calls, apiVars, toolVars, conn>>

\* line 29: db_path.unlink(), FileNotFoundError if the file is gone by now
Unlink(t) ==
    /\ thread[t].pc = "29"
    /\ IF db_exists
       THEN /\ db_exists' = FALSE
            /\ table' = {}
            /\ thread' = [thread EXCEPT ![t].pc = "31"]
       ELSE /\ thread' = [thread EXCEPT ![t].pc = "raised"]
            /\ UNCHANGED <<db_exists, table>>
    /\ UNCHANGED <<now, ticks, instance, calls, apiVars, toolVars, conn>>

\* lines 31-40: self._conn = sqlite3.connect(db_path), which creates the
\* file if there is none; CREATE TABLE IF NOT EXISTS; commit
Connect(t) ==
    /\ thread[t].pc = "31"
    /\ conn' = conn \cup {thread[t].self}
    /\ db_exists' = TRUE
    /\ thread' = [thread EXCEPT ![t].pc = "20"]
    /\ UNCHANGED <<now, ticks, instance, table, calls, apiVars, toolVars>>

\* line 20: return cls._instance
Return(t) ==
    /\ thread[t].pc = "20"
    /\ thread' = [thread EXCEPT ![t].pc = "done", ![t].got = instance]
    /\ UNCHANGED <<now, ticks, cacheVars, calls, apiVars, toolVars, conn>>

ThreadNext ==
    \E t \in Threads :
        \/ Check(t)
        \/ Allocate(t)
        \/ EnterInitDb(t)
        \/ Exists(t)
        \/ Unlink(t)
        \/ Connect(t)
        \/ Return(t)

ThreadSpec == ThreadInit /\ [][ThreadNext]_vars

\* The threads that have entered _init_db.
Initialisers == {t \in Threads : thread[t].self # "none"}

\* The threads to which SQLiteCache() has returned.
Callers == {t \in Threads : thread[t].got # "none"}

\* C15: when several threads use the store for the first time at once,
\* _init_db runs once, every caller obtains the same instance, no caller
\* obtains an instance on which _conn is not yet assigned, and cache.db is
\* never deleted once some caller has obtained the store.
C15_SingleSharedStore ==
    /\ [](/\ Cardinality(Initialisers) <= 1
          /\ \A t \in Callers : \A u \in Callers :
                thread[t].got = thread[u].got
          /\ \A t \in Callers : thread[t].got \in conn)
    /\ [][(db_exists /\ ~db_exists') => Callers = {}]_vars

(***************************************************************************)
(* Further claims about async_call (Spec)                                  *)
(***************************************************************************)
\* The invocation has stored its results in the step that led to this state.
Stored(tk) == tk.pc = "done" /\ "set" \in tk.ops

\* C16: an invocation that stores its results, also when another invocation
\* of the same request missed at the same time and stored before it, returns
\* its own results and leaves exactly one entry for the request, with the
\* data and the created_at of its own set, the last one.
C16_LastWriteWins ==
    \A t \in Tasks :
        Stored(task[t])
        => \E e \in storeLog :
              /\ e.last /\ e.req = Req(task[t]) /\ e.at = now
              /\ task[t].value = Instructed(e.results)
              /\ \E entries \in {EntriesOf(task[t])} :
                    /\ Cardinality(entries) = 1
                    /\ \A r \in entries :
                          /\ r.created_at = now
                          /\ r.data = json_dumps(make_response(e.results[2]))

\* C16 witness: two invocations of one request have both missed and both
\* requested; the second has stored other results, later, than the first,
\* whose entry was not expired, and one entry is left.
C16_Witness ==
    \E t \in Tasks : \E e \in storeLog :
        /\ Stored(task[t])
        /\ requests = 2
        /\ ~e.last /\ e.req = Req(task[t]) /\ e.at < now
        /\ task[t].value # Instructed(e.results)
        /\ Cardinality(EntriesOf(task[t])) = 1

\* The results list of an envelope, None if it has none.
ResultsOf(value) ==
    IF IsDict(value) THEN DictGet(value, <<"results">>, PyNone) ELSE PyNone

\* C17: the results list an invocation returns, and every results list
\* stored, has at most N entries, N the clamped result count of the request.
C17_AtMostN ==
    /\ \A t \in Tasks :
          (task[t].pc = "done" /\ IsList(ResultsOf(task[t].value)))
          => Len(ResultsOf(task[t].value)[2]) <= task[t].num_results
    /\ \A e \in storeLog : Len(e.results[2]) <= e.req.num

\* The list L of a decoded payload of the form {results: L} with L a
\* non-empty list; None for any other payload.
StoredList(parsed) ==
    IF parsed.ok /\ IsDict(parsed.val) /\ DictKeys(parsed.val) = {<<"results">>}
    THEN LET l == DictGet(parsed.val, <<"results">>, PyNone)
         IN  IF IsList(l) /\ Len(l[2]) > 0 THEN l ELSE PyNone
    ELSE PyNone

\* C20: every entry of the table decodes to {results: L} with L a non-empty
\* list; an invocation that looked up a request of which the table holds an
\* entry took it as a hit: it issued no remote request and returned that
\* list with the instruction, not "No results found" and not an error.
C20_StoredFormAndHit ==
    /\ \A r \in table : ~IsNone(StoredList(json_loads(r.data)))
    /\ \A t \in Tasks :
          LookedUp(task[t])
          => \A r \in EntriesOf(task[t]) :
                /\ task[t].pc = "done"
                /\ task[t].http = 0
                /\ task[t].value = Instructed(StoredList(json_loads(r.data)))

\* C20 witness: a hit has returned the MaxItems results of the entry the table
\* holds for its request.
C20_Witness ==
    \E t \in Tasks :
        /\ LookedUp(task[t]) /\ task[t].pc = "done" /\ task[t].http = 0
        /\ IsList(ResultsOf(task[t].value))
        /\ Len(ResultsOf(task[t].value)[2]) = MaxItems
        /\ \E r \in EntriesOf(task[t]) :
              StoredList(json_loads(r.data)) = ResultsOf(task[t].value)
====
